---------------------------- MODULE Spec2Model ----------------------------
(***************************************************************************)
(* csv_helper: CSV::load_csv_file, CSV::load_csv_read, CSV::save_csv_file  *)
(* and CSV::save_csv_write (src/src/csv_helper.rs), with the record type   *)
(* of the crate's tests (Bar, cut to one String field, one u64 field and   *)
(* the skip_deserializing field).                                         *)
(*                                                                         *)
(* Text is a sequence of one-character strings; a byte that is no ASCII    *)
(* character is written by its hexadecimal value ("EF", "00", ...).        *)
(* The csv::Reader, csv::Writer, serde derive and DecodeReaderBytes calls  *)
(* of the source are modelled by what those calls do with their default    *)
(* settings, which are the settings the source uses.                       *)
(***************************************************************************)
EXTENDS Integers, Sequences, FiniteSets, TLC

(***************************************************************************)
(* Bounds of the model.                                                    *)
(***************************************************************************)
\* Longest list of records handed to one save call of the main machine.
MaxRecs == 2
\* Most data rows in the text handed to one load_csv_read call.
MaxRows == 2
\* Capacity of the csv::Writer buffer, in characters (8 KiB in the crate).
BufCapacity == 24
\* Round trip: most records in one list, and most characters in all the
\* inst fields of one list together.
MaxRoundTripRecs == 2
MaxRoundTripChars == 2

(***************************************************************************)
(* Text helpers.                                                           *)
(***************************************************************************)
RECURSIVE Concat(_)
Concat(ss) == IF ss = <<>> THEN <<>> ELSE Head(ss) \o Concat(Tail(ss))

StartsWith(s, p) == Len(s) >= Len(p) /\ SubSeq(s, 1, Len(p)) = p

DropFirst(s, n) == SubSeq(s, n + 1, Len(s))

Digits == <<"0", "1", "2", "3", "4", "5", "6", "7", "8", "9">>

IsDigit(c) == \E d \in 1..10 : Digits[d] = c

DigitValue(c) == (CHOOSE d \in 1..10 : Digits[d] = c) - 1

(***************************************************************************)
(* The record type of the tests: struct Bar.                               *)
(***************************************************************************)
inst_name == <<"i", "n", "s", "t">>
volume_name == <<"v", "o", "l", "u", "m", "e">>
test_skip_name == <<"t", "e", "s", "t", "_", "s", "k", "i", "p">>

\* #[serde(skip_deserializing, default = "always_true")]
always_true == TRUE

\* The fields derive(Serialize) writes, in declared order.
SerializeFields == <<inst_name, volume_name, test_skip_name>>

\* The fields derive(Deserialize) reads: test_skip is skip_deserializing.
DeserializeFields == {inst_name, volume_name}

Bar(i, vol, t) == [inst |-> i, volume |-> vol, test_skip |-> t]

(***************************************************************************)
(* Field values to text (serde Serialize through csv's serializer).        *)
(***************************************************************************)
RECURSIVE U64ToText(_)
U64ToText(n) ==
    IF n < 10 THEN <<Digits[n + 1]>>
    ELSE Append(U64ToText(n \div 10), Digits[(n % 10) + 1])

BoolToText(b) == IF b THEN <<"t", "r", "u", "e">> ELSE <<"f", "a", "l", "s", "e">>

\* The cells of one record, in declared order. test_skip is serialized
\* like any other field.
RecordCells(r) == <<r.inst, U64ToText(r.volume), BoolToText(r.test_skip)>>

(***************************************************************************)
(* csv::Writer with default settings: delimiter comma, quote '"', doubled  *)
(* quotes, QuoteStyle::Necessary, terminator "\n".                         *)
(***************************************************************************)
\* Mutant of NeedsQuotes: line breaks are not taken to need quotes.
NeedsQuotes_DelimiterOnly(field) ==
    \E i \in 1..Len(field) : field[i] \in {",", "\""}

NeedsQuotes(field) ==
    \E i \in 1..Len(field) : field[i] \in {",", "\"", "\r", "\n"}

RECURSIVE DoubleQuotes(_)
DoubleQuotes(field) ==
    IF field = <<>> THEN <<>>
    ELSE (IF Head(field) = "\"" THEN <<"\"", "\"">> ELSE <<Head(field)>>)
         \o DoubleQuotes(Tail(field))

WriteField(field) ==
    IF NeedsQuotes(field) THEN <<"\"">> \o DoubleQuotes(field) \o <<"\"">>
    ELSE field

RECURSIVE JoinFields(_)
JoinFields(cells) ==
    IF cells = <<>> THEN <<>>
    ELSE IF Len(cells) = 1 THEN WriteField(cells[1])
    ELSE WriteField(cells[1]) \o <<",">> \o JoinFields(Tail(cells))

\* One record and its terminator. A record that wrote no byte at all (one
\* empty field) is written as a pair of quotes.
WriteRecord(cells) ==
    LET body == JoinFields(cells)
    IN (IF body = <<>> THEN <<"\"", "\"">> ELSE body) \o <<"\n">>

(***************************************************************************)
(* csv::Reader with default settings: delimiter comma, quote '"', doubled  *)
(* quotes, terminator CR, LF or CRLF, empty lines skipped, has_headers,    *)
(* not flexible, no trimming.                                              *)
(***************************************************************************)
IsTerm(c) == c \in {"\r", "\n"}

Utf8Bom == <<"EF", "BB", "BF">>

\* The reader drops a UTF-8 byte-order mark at the start of its input.
StripUtf8Bom(input) ==
    IF StartsWith(input, Utf8Bom) THEN DropFirst(input, 3) ELSE input

NoRecord == [found |-> FALSE, fields |-> <<>>, rest |-> <<>>]

\* The reader's state machine on one record: state, the input left, the
\* fields finished so far and the field being read.
RECURSIVE ReadRecordFrom(_, _, _, _)
ReadRecordFrom(state, inp, fields, cur) ==
    IF inp = <<>> THEN
        IF state = "StartRecord" THEN NoRecord
        ELSE [found |-> TRUE, fields |-> Append(fields, cur), rest |-> <<>>]
    ELSE
        LET c == Head(inp)
            rest == Tail(inp)
        IN CASE state = "StartRecord" ->
                  IF IsTerm(c) THEN ReadRecordFrom("StartRecord", rest, fields, cur)
                  ELSE ReadRecordFrom("StartField", inp, fields, cur)
             [] state = "StartField" ->
                  IF c = "\"" THEN ReadRecordFrom("InQuotedField", rest, fields, cur)
                  ELSE IF c = "," THEN
                      ReadRecordFrom("StartField", rest, Append(fields, cur), <<>>)
                  ELSE IF IsTerm(c) THEN
                      [found |-> TRUE, fields |-> Append(fields, cur), rest |-> rest]
                  ELSE ReadRecordFrom("InField", rest, fields, Append(cur, c))
             [] state = "InField" ->
                  IF c = "," THEN
                      ReadRecordFrom("StartField", rest, Append(fields, cur), <<>>)
                  ELSE IF IsTerm(c) THEN
                      [found |-> TRUE, fields |-> Append(fields, cur), rest |-> rest]
                  ELSE ReadRecordFrom("InField", rest, fields, Append(cur, c))
             [] state = "InQuotedField" ->
                  IF c = "\"" THEN
                      ReadRecordFrom("InDoubleEscapedQuote", rest, fields, cur)
                  ELSE ReadRecordFrom("InQuotedField", rest, fields, Append(cur, c))
             [] state = "InDoubleEscapedQuote" ->
                  IF c = "\"" THEN
                      ReadRecordFrom("InQuotedField", rest, fields, Append(cur, c))
                  ELSE IF c = "," THEN
                      ReadRecordFrom("StartField", rest, Append(fields, cur), <<>>)
                  ELSE IF IsTerm(c) THEN
                      [found |-> TRUE, fields |-> Append(fields, cur), rest |-> rest]
                  ELSE ReadRecordFrom("InField", rest, fields, Append(cur, c))

ReadRecord(input) == ReadRecordFrom("StartRecord", input, <<>>, <<>>)

(***************************************************************************)
(* Text to field values (serde Deserialize through csv's deserializer).    *)
(***************************************************************************)
\* str::parse::<u64>: an optional '+', then one or more decimal digits.
\* (csv also reads a u64 written in hexadecimal after "0x"; no text of the
\* model holds such a cell.)
ParsesAsU64(text) ==
    LET ds == IF text # <<>> /\ Head(text) = "+" THEN Tail(text) ELSE text
    IN ds # <<>> /\ \A i \in 1..Len(ds) : IsDigit(ds[i])

RECURSIVE DigitsValue(_)
DigitsValue(ds) ==
    IF ds = <<>> THEN 0
    ELSE DigitsValue(SubSeq(ds, 1, Len(ds) - 1)) * 10 + DigitValue(ds[Len(ds)])

ParseU64(text) ==
    DigitsValue(IF Head(text) = "+" THEN Tail(text) ELSE text)

\* The columns of the header named name.
Columns(headers, name) == {i \in 1..Len(headers) : headers[i] = name}

\* str::parse::<bool>.
ParsesAsBool(text) == text \in {BoolToText(TRUE), BoolToText(FALSE)}

\* Mutant of DeserializeRow: test_skip is read from its column when the
\* header has one (the field without skip_deserializing).
DeserializeRow_ReadsSkip(headers, fields) ==
    LET skip == Columns(headers, test_skip_name)
        cell == fields[CHOOSE i \in skip : TRUE]
    IN IF \E f \in DeserializeFields : Cardinality(Columns(headers, f)) # 1 THEN
           [ok |-> FALSE, cause |-> "missing field"]
       ELSE IF ~ParsesAsU64(fields[CHOOSE i \in Columns(headers, volume_name) : TRUE]) THEN
           [ok |-> FALSE, cause |-> "invalid digit"]
       ELSE IF skip # {} /\ ~ParsesAsBool(cell) THEN
           [ok |-> FALSE, cause |-> "invalid bool"]
       ELSE
           [ok |-> TRUE,
            record |-> Bar(fields[CHOOSE i \in Columns(headers, inst_name) : TRUE],
                           ParseU64(fields[CHOOSE i \in Columns(headers, volume_name) : TRUE]),
                           IF skip = {} THEN always_true ELSE cell = BoolToText(TRUE))]

\* Mutant of DeserializeRow: a column the header lacks is filled with a
\* default (every field with serde(default)).
DeserializeRow_DefaultsMissing(headers, fields) ==
    LET vol == Columns(headers, volume_name)
        ins == Columns(headers, inst_name)
    IN IF vol # {} /\ ~ParsesAsU64(fields[CHOOSE i \in vol : TRUE]) THEN
           [ok |-> FALSE, cause |-> "invalid digit"]
       ELSE
           [ok |-> TRUE,
            record |-> Bar(IF ins = {} THEN <<>> ELSE fields[CHOOSE i \in ins : TRUE],
                           IF vol = {} THEN 0 ELSE ParseU64(fields[CHOOSE i \in vol : TRUE]),
                           always_true)]

\* derive(Deserialize) for Bar, fed the (header, cell) pairs of one row in
\* column order: a column that names no deserialized field is ignored, a
\* field named twice or never is an error, and so is a cell that is no
\* u64; test_skip always gets always_true.
DeserializeRow(headers, fields) ==
    LET n == IF Len(fields) < Len(headers) THEN Len(fields) ELSE Len(headers)
        hs == SubSeq(headers, 1, n)
        bad == {i \in 1..n :
                   \/ hs[i] \in DeserializeFields
                      /\ \E j \in 1..(i - 1) : hs[j] = hs[i]
                   \/ hs[i] = volume_name /\ ~ParsesAsU64(fields[i])}
    IN IF bad # {} THEN
           LET i == CHOOSE k \in bad : \A m \in bad : k <= m
           IN [ok |-> FALSE,
               cause |-> IF \E j \in 1..(i - 1) : hs[j] = hs[i]
                         THEN "duplicate field" ELSE "invalid digit"]
       ELSE IF \E f \in DeserializeFields : Columns(hs, f) = {} THEN
           [ok |-> FALSE, cause |-> "missing field"]
       ELSE
           [ok |-> TRUE,
            record |-> Bar(fields[CHOOSE i \in Columns(hs, inst_name) : TRUE],
                           ParseU64(fields[CHOOSE i \in Columns(hs, volume_name) : TRUE]),
                           always_true)]

\* Every record of the input after the first (the header), as the reader
\* splits it; used to state what a load was given.
RECURSIVE AllRecords(_)
AllRecords(input) ==
    LET r == ReadRecord(input)
    IN IF r.found THEN <<r.fields>> \o AllRecords(r.rest) ELSE <<>>

(***************************************************************************)
(* encoding_rs_io::DecodeReaderBytes::new with default settings: a leading *)
(* byte-order mark selects the encoding and is removed, the rest is        *)
(* transcoded to UTF-8 (malformed input becomes U+FFFD); input without a   *)
(* mark passes through untouched.                                          *)
(***************************************************************************)
Utf16LeBom == <<"FF", "FE">>
Utf16BeBom == <<"FE", "FF">>
ReplacementChar == "FFFD"

RECURSIVE DecodeUtf16(_, _)
DecodeUtf16(bytes, littleEndian) ==
    IF bytes = <<>> THEN <<>>
    ELSE IF Len(bytes) = 1 THEN <<ReplacementChar>>
    ELSE LET lo == IF littleEndian THEN bytes[1] ELSE bytes[2]
             hi == IF littleEndian THEN bytes[2] ELSE bytes[1]
         IN <<IF hi = "00" THEN lo ELSE ReplacementChar>>
            \o DecodeUtf16(DropFirst(bytes, 2), littleEndian)

DecodeReaderBytes(bytes) ==
    IF StartsWith(bytes, Utf8Bom) THEN DropFirst(bytes, 3)
    ELSE IF StartsWith(bytes, Utf16LeBom) THEN DecodeUtf16(DropFirst(bytes, 2), TRUE)
    ELSE IF StartsWith(bytes, Utf16BeBom) THEN DecodeUtf16(DropFirst(bytes, 2), FALSE)
    ELSE bytes

\* What a text editor saves: the text in one of the encodings, with or
\* without its byte-order mark.
RECURSIVE EncodeUtf16(_, _)
EncodeUtf16(text, littleEndian) ==
    IF text = <<>> THEN <<>>
    ELSE (IF littleEndian THEN <<Head(text), "00">> ELSE <<"00", Head(text)>>)
         \o EncodeUtf16(Tail(text), littleEndian)

Encodings == {"utf8", "utf8-bom", "utf16le-bom", "utf16be-bom"}

Encode(encoding, text) ==
    CASE encoding = "utf8" -> text
      [] encoding = "utf8-bom" -> Utf8Bom \o text
      [] encoding = "utf16le-bom" -> Utf16LeBom \o EncodeUtf16(text, TRUE)
      [] encoding = "utf16be-bom" -> Utf16BeBom \o EncodeUtf16(text, FALSE)

(***************************************************************************)
(* csv::Reader as an object: from_reader, the header read that             *)
(* deserialize() does, and one step of its iterator.                       *)
(***************************************************************************)
NoReader == [input |-> <<>>, headers |-> <<>>, first_field_count |-> -1]

\* Reader::from_reader(read) followed by rdr.deserialize(): the first
\* record is read as the header and fixes the number of fields.
ReaderFromReader(bytes) ==
    LET r == ReadRecord(StripUtf8Bom(bytes))
    IN [input |-> r.rest,
        headers |-> r.fields,
        first_field_count |-> IF r.found THEN Len(r.fields) ELSE -1]

\* Iterator::next of rdr.deserialize::<D>(): the end of the input, a row
\* whose length differs from the header's, a row serde rejects, or a record.
ReaderNext(rdr) ==
    LET r == ReadRecord(rdr.input)
        after == [rdr EXCEPT !.input = r.rest]
    IN IF ~r.found THEN
           [kind |-> "end", rdr |-> after, record |-> Bar(<<>>, 0, FALSE), cause |-> ""]
       ELSE IF Len(r.fields) # rdr.first_field_count THEN
           [kind |-> "error", rdr |-> after, record |-> Bar(<<>>, 0, FALSE),
            cause |-> "unequal lengths"]
       ELSE LET d == DeserializeRow(rdr.headers, r.fields)
            IN IF d.ok THEN
                   [kind |-> "record", rdr |-> after, record |-> d.record, cause |-> ""]
               ELSE
                   [kind |-> "error", rdr |-> after, record |-> Bar(<<>>, 0, FALSE),
                    cause |-> d.cause]

(***************************************************************************)
(* csv::Writer as an object: its buffer in front of the sink, serialize,   *)
(* flush and drop.                                                         *)
(***************************************************************************)
NoWriter == [buf |-> <<>>, header_written |-> FALSE]

WriterFromWriter == [buf |-> <<>>, header_written |-> FALSE]

\* Write::write_all on the sink: all the bytes, or an error after the
\* first partial of them.
SinkWriteAll(snk, bytes, accepts, partial) ==
    IF accepts \/ bytes = <<>> THEN [ok |-> TRUE, sink |-> snk \o bytes]
    ELSE [ok |-> FALSE,
          sink |-> snk \o SubSeq(bytes, 1, IF partial < Len(bytes) THEN partial ELSE Len(bytes))]

\* Writer::flush_buf: the buffer goes to the sink and is cleared; on an
\* error the buffer is kept as it was.
FlushBuf(w, snk, accepts, partial) ==
    LET r == SinkWriteAll(snk, w.buf, accepts, partial)
    IN [ok |-> r.ok,
        wtr |-> IF r.ok THEN [w EXCEPT !.buf = <<>>] ELSE w,
        sink |-> r.sink]

\* The writer's output path: bytes fill the buffer, and the buffer is
\* flushed each time it is full and more is to come.
RECURSIVE BufWrite(_, _, _, _, _)
BufWrite(w, snk, bytes, accepts, partial) ==
    IF Len(w.buf) + Len(bytes) <= BufCapacity THEN
        [ok |-> TRUE, wtr |-> [w EXCEPT !.buf = w.buf \o bytes], sink |-> snk]
    ELSE
        LET room == BufCapacity - Len(w.buf)
            full == [w EXCEPT !.buf = w.buf \o SubSeq(bytes, 1, room)]
            f == FlushBuf(full, snk, accepts, partial)
        IN IF f.ok THEN BufWrite(f.wtr, f.sink, DropFirst(bytes, room), accepts, partial)
           ELSE f

\* Mutant of SerializeBytes: the header row is written before every record.
SerializeBytes_HeaderEachTime(w, r) ==
    WriteRecord(SerializeFields) \o WriteRecord(RecordCells(r))

\* What wtr.serialize(record) hands to the output path: the header row
\* before the first record, then the record's row.
SerializeBytes(w, r) ==
    (IF w.header_written THEN <<>> ELSE WriteRecord(SerializeFields))
    \o WriteRecord(RecordCells(r))

\* Writer::serialize.
WtrSerialize(w, snk, r, accepts, partial) ==
    BufWrite([w EXCEPT !.header_written = TRUE], snk, SerializeBytes(w, r),
             accepts, partial)

\* Mutant of WtrFlush: nothing is flushed.
WtrFlush_Skipped(w, snk, kind, accepts, partial) ==
    [ok |-> TRUE, wtr |-> w, sink |-> snk]

\* Writer::flush: the buffer, then the sink's own flush. A File's flush
\* does nothing; another sink's flush fails when the sink is broken.
WtrFlush(w, snk, kind, accepts, partial) ==
    LET f == FlushBuf(w, snk, accepts, partial)
    IN IF f.ok /\ ~accepts /\ kind # "file" THEN [f EXCEPT !.ok = FALSE] ELSE f

\* Drop for Writer: one more flush, its outcome ignored.
WtrDrop(w, snk, kind, accepts, partial) ==
    WtrFlush(w, snk, kind, accepts, partial).sink

(***************************************************************************)
(* The program's state.                                                    *)
(***************************************************************************)
VARIABLES
    fs,       \* the file system: path -> [exists, data]
    handles,  \* the paths of the File handles that are open
    pc,       \* where the call in progress stands; "idle" between calls
    frame,    \* the call in progress or, between calls, the last one
    rdr,      \* load_csv_read: the Reader
    v,        \* load_csv_read: the vector of records
    wtr,      \* save_csv_write: the Writer
    iter,     \* save_csv_write: the records the iterator has yet to yield
    sink,     \* save_csv_write: the bytes its sink has received
    pending,  \* the error being propagated while the writer is dropped
    result,   \* what the last call returned to its caller
    trace     \* history of the call: what it has done so far

vars == <<fs, handles, pc, frame, rdr, v, wtr, iter, sink, pending, result, trace>>

Paths == {"bars.csv", "nodir/bars.csv"}

\* "nodir" does not exist: nothing can be opened or created under it.
Creatable(p) == p = "bars.csv"

NoFile == [exists |-> FALSE, data |-> <<>>]

NoContext == ""

NoResult ==
    [status |-> "none", records |-> <<>>, bytes |-> <<>>, handle |-> NoWriter,
     cause |-> "", context |-> NoContext]

\* Ok(v) of a load.
OkRecords(records) == [NoResult EXCEPT !.status = "ok", !.records = records]

\* Ok(wtr) of save_csv_write: the writer and, through it, the sink.
OkWriter(w, snk) == [NoResult EXCEPT !.status = "ok", !.handle = w, !.bytes = snk]

\* Ok(()) of save_csv_file.
OkUnit == [NoResult EXCEPT !.status = "ok"]

Err(cause, context) ==
    [NoResult EXCEPT !.status = "err", !.cause = cause, !.context = context]

\* .with_context(|| path.display().to_string()) on File::open and
\* File::create.
OpenContext(path) == path

\* Mutant of DelegatedContext: the second with_context is left out.
DelegatedContext_Dropped(fn, path) == NoContext

\* .with_context(|| path.display().to_string()) on the result of the stream
\* function a file function delegates to; a stream function called
\* directly attaches nothing.
DelegatedContext(fn, path) ==
    IF fn \in {"load_csv_file", "save_csv_file"} THEN path ELSE NoContext

\* Mutant of LoadFileSource: the file is handed over as it is.
LoadFileSource_Raw(bytes) == bytes

\* What each load hands to Reader::from_reader: load_csv_read its argument,
\* load_csv_file the file wrapped in DecodeReaderBytes.
LoadReadSource(read) == read

LoadFileSource(bytes) == DecodeReaderBytes(bytes)

\* Mutant of CloseFile: the handle is kept.
CloseFile_Leaks(hs, path) == hs

\* A File handle goes out of scope.
CloseFile(hs, path) == hs \ {path}

\* fn and its arguments: the path, the sink's kind and the records, or the
\* input bytes (of_saved: they are what a save of recs produced).
NoFrame ==
    [fn |-> "none", path |-> "", kind |-> "", recs |-> <<>>, input |-> <<>>,
     of_saved |-> FALSE]

NoTrace ==
    [delivered |-> <<>>, rows |-> 0, serialized |-> 0, emitted |-> <<>>,
     flushed |-> FALSE, opens |-> 0, truncated |-> FALSE]

(***************************************************************************)
(* load_csv_read and load_csv_file.                                        *)
(***************************************************************************)
\* load_csv_read(read), up to the loop.
CallLoadRead(input, saved, of_saved) ==
    /\ pc = "idle"
    /\ pc' = "load_loop"
    /\ frame' = [NoFrame EXCEPT !.fn = "load_csv_read", !.input = input,
                                !.recs = saved, !.of_saved = of_saved]
    /\ rdr' = ReaderFromReader(LoadReadSource(input))
    /\ v' = <<>>
    /\ result' = NoResult
    /\ sink' = <<>>
    /\ trace' = [NoTrace EXCEPT !.delivered = LoadReadSource(input)]
    /\ UNCHANGED <<fs, handles, wtr, iter, pending>>

\* load_csv_file(csv): File::open fails.
LoadFileOpenFails(p) ==
    /\ pc = "idle"
    /\ ~fs[p].exists
    /\ frame' = [NoFrame EXCEPT !.fn = "load_csv_file", !.path = p]
    /\ result' = Err("open", OpenContext(p))
    /\ sink' = <<>>
    /\ trace' = [NoTrace EXCEPT !.opens = 1]
    /\ UNCHANGED <<fs, handles, pc, rdr, v, wtr, iter, pending>>

\* load_csv_file(csv): the file opens and load_csv_read starts on the
\* decoded bytes.
LoadFileOpens(p) ==
    /\ pc = "idle"
    /\ fs[p].exists
    /\ pc' = "load_loop"
    /\ handles' = handles \cup {p}
    /\ frame' = [NoFrame EXCEPT !.fn = "load_csv_file", !.path = p,
                                !.input = fs[p].data]
    /\ rdr' = ReaderFromReader(LoadFileSource(fs[p].data))
    /\ v' = <<>>
    /\ result' = NoResult
    /\ sink' = <<>>
    /\ trace' = [NoTrace EXCEPT !.delivered = LoadFileSource(fs[p].data),
                                !.opens = 1]
    /\ UNCHANGED <<fs, wtr, iter, pending>>

\* One turn of the loop: the row deserializes and is pushed.
LoadRowOk ==
    /\ pc = "load_loop"
    /\ LET n == ReaderNext(rdr)
       IN /\ n.kind = "record"
          /\ rdr' = n.rdr
          /\ v' = Append(v, n.record)
    /\ trace' = [trace EXCEPT !.rows = @ + 1]
    /\ UNCHANGED <<fs, handles, pc, frame, wtr, iter, sink, pending, result>>

\* Mutant of LoadRowFails: the row is skipped and the loop goes on.
LoadRowFails_Skips ==
    /\ pc = "load_loop"
    /\ LET n == ReaderNext(rdr)
       IN /\ n.kind = "error"
          /\ rdr' = n.rdr
    /\ trace' = [trace EXCEPT !.rows = @ + 1]
    /\ UNCHANGED <<fs, handles, pc, frame, v, wtr, iter, sink, pending, result>>

\* One turn of the loop: result? returns the error; v and the reader (and
\* the file in it) are dropped.
LoadRowFails ==
    /\ pc = "load_loop"
    /\ LET n == ReaderNext(rdr)
       IN /\ n.kind = "error"
          /\ result' = Err(n.cause, DelegatedContext(frame.fn, frame.path))
    /\ pc' = "idle"
    /\ rdr' = NoReader
    /\ v' = <<>>
    /\ handles' = CloseFile(handles, frame.path)
    /\ trace' = [trace EXCEPT !.rows = @ + 1]
    /\ UNCHANGED <<fs, frame, wtr, iter, sink, pending>>

\* The iterator is exhausted: Ok(v).
LoadEnd ==
    /\ pc = "load_loop"
    /\ ReaderNext(rdr).kind = "end"
    /\ result' = OkRecords(v)
    /\ pc' = "idle"
    /\ rdr' = NoReader
    /\ v' = <<>>
    /\ handles' = CloseFile(handles, frame.path)
    /\ UNCHANGED <<fs, frame, wtr, iter, sink, pending, trace>>

(***************************************************************************)
(* save_csv_write and save_csv_file.                                       *)
(***************************************************************************)
\* Whether the sink takes the next write, and how much of it a failing
\* write gets through: a Vec takes everything.
SinkAccepts(kind) == IF kind = "vec" THEN {TRUE} ELSE BOOLEAN

PartialWrites == {0, 1}

\* save_csv_write(write, iter), up to the loop.
CallSaveWrite(kind, recs) ==
    /\ pc = "idle"
    /\ pc' = "save_loop"
    /\ frame' = [NoFrame EXCEPT !.fn = "save_csv_write", !.kind = kind, !.recs = recs]
    /\ wtr' = WriterFromWriter
    /\ iter' = recs
    /\ sink' = <<>>
    /\ result' = NoResult
    /\ trace' = NoTrace
    /\ UNCHANGED <<fs, handles, rdr, v, pending>>

\* save_csv_file(csv, iter): File::create fails.
SaveFileCreateFails(p, recs) ==
    /\ pc = "idle"
    /\ ~Creatable(p)
    /\ frame' = [NoFrame EXCEPT !.fn = "save_csv_file", !.path = p, !.kind = "file",
                                !.recs = recs]
    /\ result' = Err("create", OpenContext(p))
    /\ sink' = <<>>
    /\ trace' = [NoTrace EXCEPT !.opens = 1]
    /\ UNCHANGED <<fs, handles, pc, rdr, v, wtr, iter, pending>>

\* save_csv_file(csv, iter): the file is created or truncated and
\* save_csv_write starts on it.
SaveFileCreates(p, recs) ==
    /\ pc = "idle"
    /\ Creatable(p)
    /\ pc' = "save_loop"
    /\ fs' = [fs EXCEPT ![p] = [exists |-> TRUE, data |-> <<>>]]
    /\ handles' = handles \cup {p}
    /\ frame' = [NoFrame EXCEPT !.fn = "save_csv_file", !.path = p, !.kind = "file",
                                !.recs = recs]
    /\ wtr' = WriterFromWriter
    /\ iter' = recs
    /\ sink' = <<>>
    /\ result' = NoResult
    /\ trace' = [NoTrace EXCEPT !.opens = 1, !.truncated = TRUE]
    /\ UNCHANGED <<rdr, v, pending>>

\* The sink of save_csv_file is the file itself, unbuffered.
FileAfter(snk) ==
    IF frame.kind = "file" THEN [fs EXCEPT ![frame.path].data = snk] ELSE fs

\* One turn of the loop: wtr.serialize(record) succeeds.
SaveRecordOk ==
    /\ pc = "save_loop"
    /\ iter # <<>>
    /\ \E accepts \in SinkAccepts(frame.kind), partial \in PartialWrites :
         LET s == WtrSerialize(wtr, sink, Head(iter), accepts, partial)
         IN /\ s.ok
            /\ wtr' = s.wtr
            /\ sink' = s.sink
            /\ fs' = FileAfter(s.sink)
            /\ trace' = [trace EXCEPT !.serialized = @ + 1,
                                      !.emitted = @ \o SerializeBytes(wtr, Head(iter))]
    /\ iter' = Tail(iter)
    /\ UNCHANGED <<handles, pc, frame, rdr, v, pending, result>>

\* Mutant of SaveRecordFails: the error is dropped and the loop goes on.
SaveRecordFails_Swallows ==
    /\ pc = "save_loop"
    /\ iter # <<>>
    /\ \E accepts \in SinkAccepts(frame.kind), partial \in PartialWrites :
         LET s == WtrSerialize(wtr, sink, Head(iter), accepts, partial)
         IN /\ ~s.ok
            /\ wtr' = s.wtr
            /\ sink' = s.sink
            /\ fs' = FileAfter(s.sink)
    /\ iter' = Tail(iter)
    /\ trace' = [trace EXCEPT !.serialized = @ + 1]
    /\ UNCHANGED <<handles, pc, frame, rdr, v, pending, result>>

\* One turn of the loop: wtr.serialize(record)? returns the error.
SaveRecordFails ==
    /\ pc = "save_loop"
    /\ iter # <<>>
    /\ \E accepts \in SinkAccepts(frame.kind), partial \in PartialWrites :
         LET s == WtrSerialize(wtr, sink, Head(iter), accepts, partial)
         IN /\ ~s.ok
            /\ wtr' = s.wtr
            /\ sink' = s.sink
            /\ fs' = FileAfter(s.sink)
    /\ pc' = "save_unwind"
    /\ pending' = "write"
    /\ trace' = [trace EXCEPT !.serialized = @ + 1]
    /\ UNCHANGED <<handles, frame, rdr, v, iter, result>>

\* After the loop: wtr.flush() succeeds and Ok(wtr) is returned;
\* save_csv_file drops the writer, and with it the file, and returns Ok(()).
SaveFlushOk ==
    /\ pc = "save_loop"
    /\ iter = <<>>
    /\ \E accepts \in SinkAccepts(frame.kind), partial \in PartialWrites :
         LET f == WtrFlush(wtr, sink, frame.kind, accepts, partial)
         IN /\ f.ok
            /\ sink' = f.sink
            /\ fs' = FileAfter(f.sink)
            /\ result' = IF frame.fn = "save_csv_file" THEN OkUnit
                         ELSE OkWriter(f.wtr, f.sink)
    /\ pc' = "idle"
    /\ wtr' = NoWriter
    /\ handles' = CloseFile(handles, frame.path)
    /\ trace' = [trace EXCEPT !.flushed = TRUE]
    /\ UNCHANGED <<frame, rdr, v, iter, pending>>

\* After the loop: wtr.flush()? returns the error.
SaveFlushFails ==
    /\ pc = "save_loop"
    /\ iter = <<>>
    /\ \E accepts \in SinkAccepts(frame.kind), partial \in PartialWrites :
         LET f == WtrFlush(wtr, sink, frame.kind, accepts, partial)
         IN /\ ~f.ok
            /\ wtr' = f.wtr
            /\ sink' = f.sink
            /\ fs' = FileAfter(f.sink)
    /\ pc' = "save_unwind"
    /\ pending' = "flush"
    /\ UNCHANGED <<handles, frame, rdr, v, iter, result, trace>>

\* The error leaves save_csv_write: the writer is dropped (it tries one
\* more flush), the file is closed, and the error is returned, with the
\* path as context from save_csv_file.
SaveUnwind ==
    /\ pc = "save_unwind"
    /\ \E accepts \in SinkAccepts(frame.kind), partial \in PartialWrites :
         LET snk == WtrDrop(wtr, sink, frame.kind, accepts, partial)
         IN /\ sink' = snk
            /\ fs' = FileAfter(snk)
    /\ result' = Err(pending, DelegatedContext(frame.fn, frame.path))
    /\ pc' = "idle"
    /\ wtr' = NoWriter
    /\ iter' = <<>>
    /\ pending' = ""
    /\ handles' = CloseFile(handles, frame.path)
    /\ UNCHANGED <<frame, rdr, v, trace>>

(***************************************************************************)
(* What the callers of the model pass in.                                  *)
(***************************************************************************)
bar1 == Bar(<<"I", "C">>, 90628, TRUE)
bar2 == Bar(<<"I", ",", "\"", "\n">>, 0, FALSE)

SaveRecords == {bar1, bar2}

RECURSIVE SeqsUpTo(_, _)
SeqsUpTo(S, n) ==
    IF n = 0 THEN {<<>>}
    ELSE LET shorter == SeqsUpTo(S, n - 1)
         IN shorter \cup {Append(s, e) : s \in {t \in shorter : Len(t) = n - 1}, e \in S}

SaveLists == SeqsUpTo(SaveRecords, MaxRecs)

\* The files there are before the first call.
FileTexts ==
    {<<>>,
     WriteRecord(SerializeFields),
     WriteRecord(SerializeFields) \o WriteRecord(RecordCells(bar1)),
     WriteRecord(SerializeFields) \o WriteRecord(<<<<"I", "C">>, <<"x">>, <<"1">>>>)}

InitFiles == {NoFile} \cup {[exists |-> TRUE, data |-> Encode(e, t)] :
                               e \in {"utf8", "utf8-bom"}, t \in FileTexts}

Init ==
    /\ fs \in {f \in [Paths -> InitFiles] : ~f["nodir/bars.csv"].exists}
    /\ handles = {}
    /\ pc = "idle"
    /\ frame = NoFrame
    /\ rdr = NoReader
    /\ v = <<>>
    /\ wtr = NoWriter
    /\ iter = <<>>
    /\ sink = <<>>
    /\ pending = ""
    /\ result = NoResult
    /\ trace = NoTrace

\* The bytes of a str: UTF-8 (FF and FE occur in no UTF-8 text).
ValidUtf8(bytes) == \A i \in 1..Len(bytes) : bytes[i] \notin {"FF", "FE"}

\* The caller hands load_csv_read the bytes of a str (here: the content of
\* a file that is UTF-8, with or without a mark), or the bytes the last
\* save_csv_write produced.
CallLoadReadOfFile ==
    \E p \in Paths :
        /\ fs[p].exists
        /\ ValidUtf8(fs[p].data)
        /\ CallLoadRead(fs[p].data, <<>>, FALSE)

CallLoadReadOfSaved ==
    /\ frame.fn = "save_csv_write"
    /\ result.status = "ok"
    /\ CallLoadRead(result.bytes, frame.recs, TRUE)

Next ==
    \/ CallLoadReadOfFile
    \/ CallLoadReadOfSaved
    \/ \E p \in Paths : LoadFileOpenFails(p)
    \/ \E p \in Paths : LoadFileOpens(p)
    \/ LoadRowOk
    \/ LoadRowFails
    \/ LoadEnd
    \/ \E kind \in {"vec", "pipe"}, recs \in SaveLists : CallSaveWrite(kind, recs)
    \/ \E p \in Paths, recs \in SaveLists : SaveFileCreateFails(p, recs)
    \/ \E p \in Paths, recs \in SaveLists : SaveFileCreates(p, recs)
    \/ SaveRecordOk
    \/ SaveRecordFails
    \/ SaveFlushOk
    \/ SaveFlushFails
    \/ SaveUnwind

Spec == Init /\ [][Next]_vars

(***************************************************************************)
(* The loads alone, on a wide range of texts: one file, in each encoding,  *)
(* loaded once by either function.                                         *)
(***************************************************************************)
extra_name == <<"e", "x", "t", "r", "a">>

Headers ==
    {SerializeFields,
     <<inst_name, volume_name>>,
     <<inst_name, test_skip_name>>,
     <<volume_name, extra_name, inst_name>>,
     <<inst_name, inst_name, volume_name>>}

\* The cells a column may hold, as they stand in the text.
CellsFor(name) ==
    CASE name = inst_name -> {<<"I", "C">>, <<"\"", ",", "\"", "\"", "\n", "\"">>}
      [] name = volume_name -> {<<"7">>, <<"x">>}
      [] name = test_skip_name -> {<<"f", "a", "l", "s", "e">>, <<"?">>}
      [] OTHER -> {<<"z">>}

RECURSIVE JoinRaw(_)
JoinRaw(cells) ==
    IF cells = <<>> THEN <<>>
    ELSE IF Len(cells) = 1 THEN cells[1]
    ELSE cells[1] \o <<",">> \o JoinRaw(Tail(cells))

RawLine(cells) == JoinRaw(cells) \o <<"\n">>

\* The rows under a header: every choice of cells, one row a cell short and
\* one a cell long.
RowsFor(h) ==
    LET full == {r \in [1..Len(h) -> UNION {CellsFor(h[i]) : i \in 1..Len(h)}] :
                    \A i \in 1..Len(h) : r[i] \in CellsFor(h[i])}
        one == CHOOSE r \in full : \A i \in 1..Len(h) : r[i] \in {<<"I", "C">>, <<"7">>,
                                       <<"f", "a", "l", "s", "e">>, <<"z">>}
    IN {RawLine(r) : r \in full}
       \cup {RawLine(SubSeq(one, 1, Len(h) - 1)), RawLine(Append(one, <<"9">>))}

LoadTexts ==
    {<<>>}
    \cup UNION {{RawLine(h) \o Concat(rows) : rows \in SeqsUpTo(RowsFor(h), MaxRows)} :
                   h \in Headers}
    \cup {\* the text of the crate's load test: a blank line first, no line
          \* break at the end
          <<"\n">> \o RawLine(SerializeFields)
          \o <<"I", "C", ",", "9", "0", ",", "f", "a", "l", "s", "e">>,
          \* rows ended by CR LF
          JoinRaw(SerializeFields) \o <<"\r", "\n">>
          \o <<"I", "C", ",", "9", "0", ",", "f", "a", "l", "s", "e", "\r", "\n">>}

InitLoad ==
    /\ fs \in {[p \in Paths |-> IF p = "bars.csv"
                                THEN [exists |-> TRUE, data |-> Encode(e, t)]
                                ELSE NoFile] : e \in Encodings, t \in LoadTexts}
    /\ handles = {}
    /\ pc = "idle"
    /\ frame = NoFrame
    /\ rdr = NoReader
    /\ v = <<>>
    /\ wtr = NoWriter
    /\ iter = <<>>
    /\ sink = <<>>
    /\ pending = ""
    /\ result = NoResult
    /\ trace = NoTrace

NextLoad ==
    \/ frame.fn = "none" /\ CallLoadReadOfFile
    \/ frame.fn = "none" /\ \E p \in Paths : LoadFileOpens(p)
    \/ frame.fn = "none" /\ \E p \in Paths : LoadFileOpenFails(p)
    \/ LoadRowOk
    \/ LoadRowFails
    \/ LoadEnd

SpecLoad == InitLoad /\ [][NextLoad]_vars

(***************************************************************************)
(* The round trip alone, on a wide range of records: one list saved into   *)
(* a Vec, and the Vec's bytes loaded.                                      *)
(***************************************************************************)
Chars == {"a", ",", "\"", "\n"}

RECURSIVE Strings(_)
Strings(n) ==
    IF n = 0 THEN {<<>>}
    ELSE {Append(s, c) : s \in Strings(n - 1), c \in Chars}

StringsUpTo(n) == UNION {Strings(k) : k \in 0..n}

\* The records with a given inst.
BarsOf(i) == {Bar(i, 0, TRUE), Bar(i, 95173, FALSE)}

\* The lists of at most m records whose inst fields hold at most b
\* characters together.
RECURSIVE ListsWithin(_, _)
ListsWithin(m, b) ==
    IF m = 0 THEN {<<>>}
    ELSE {<<>>} \cup UNION {{<<r>> \o t : r \in BarsOf(s), t \in ListsWithin(m - 1, b - Len(s))} :
                                s \in StringsUpTo(b)}

RoundTripLists ==
    ListsWithin(MaxRoundTripRecs, MaxRoundTripChars)
    \cup {<<r>> : r \in BarsOf(<<",", "\"", "\n">>) \cup BarsOf(<<"a", "\r", "b">>)}

InitRoundTrip ==
    /\ fs = [p \in Paths |-> NoFile]
    /\ handles = {}
    /\ pc = "idle"
    /\ frame = NoFrame
    /\ rdr = NoReader
    /\ v = <<>>
    /\ wtr = NoWriter
    /\ iter = <<>>
    /\ sink = <<>>
    /\ pending = ""
    /\ result = NoResult
    /\ trace = NoTrace

NextRoundTrip ==
    \/ frame.fn = "none" /\ \E recs \in RoundTripLists : CallSaveWrite("vec", recs)
    \/ SaveRecordOk
    \/ SaveFlushOk
    \/ CallLoadReadOfSaved
    \/ LoadRowOk
    \/ LoadEnd

SpecRoundTrip == InitRoundTrip /\ [][NextRoundTrip]_vars

(***************************************************************************)
(* Properties.                                                             *)
(***************************************************************************)
LoadFns == {"load_csv_read", "load_csv_file"}
SaveFns == {"save_csv_write", "save_csv_file"}
FileFns == {"load_csv_file", "save_csv_file"}

\* A call has returned.
Returned == pc = "idle" /\ frame.fn # "none"

\* A load has returned after it got as far as the reader.
Loaded == Returned /\ frame.fn \in LoadFns /\ result.cause # "open"

\* What the reader was given, as records: the header first, then the data
\* rows.
GivenRecords == AllRecords(StripUtf8Bom(trace.delivered))
HeaderOf(recs) == IF recs = <<>> THEN <<>> ELSE Head(recs)
RowsOf(recs) == IF recs = <<>> THEN <<>> ELSE Tail(recs)

\* The header names every deserialized field exactly once.
HeaderFine(h) == \A f \in DeserializeFields : Cardinality(Columns(h, f)) = 1

\* A data row as long as the header whose volume cells are numbers.
RowFine(h, row) ==
    /\ Len(row) = Len(h)
    /\ \A j \in 1..Len(row) : h[j] = volume_name => ParsesAsU64(row[j])

\* C1: a column named like the default-only field test_skip never decides
\* the field: every record a load returns has test_skip = always_true,
\* whatever the cells of that column hold, and a header without that
\* column is no error (fine header and fine rows always load).
C1_DefaultOnlyField ==
    Loaded =>
        LET h == HeaderOf(GivenRecords)
            rows == RowsOf(GivenRecords)
        IN /\ result.status = "ok" =>
                  \A i \in 1..Len(result.records) :
                      result.records[i].test_skip = always_true
           /\ (HeaderFine(h) /\ \A i \in 1..Len(rows) : RowFine(h, rows[i])) =>
                  /\ result.status = "ok"
                  /\ Len(result.records) = Len(rows)

\* A load returned records from a text whose test_skip column says false.
C1_Witness ==
    /\ Loaded
    /\ result.status = "ok"
    /\ result.records # <<>>
    /\ \E j \in Columns(HeaderOf(GivenRecords), test_skip_name) :
           RowsOf(GivenRecords)[1][j] = BoolToText(FALSE)

\* C2: loading the bytes save_csv_write produced for a list of records
\* returns as many records in the same order, each equal to the original
\* with test_skip replaced by always_true; no row of those bytes fails.
C2_RoundTrip ==
    (frame.fn = "load_csv_read" /\ frame.of_saved) =>
        /\ pc = "load_loop" => ReaderNext(rdr).kind # "error"
        /\ pc = "idle" =>
               /\ result.status = "ok"
               /\ Len(result.records) = Len(frame.recs)
               /\ \A i \in 1..Len(frame.recs) :
                      result.records[i] = [frame.recs[i] EXCEPT !.test_skip = always_true]

\* A round trip of a record whose inst holds a comma, a quote and a line
\* break and whose test_skip was false.
C2_Witness ==
    /\ Returned
    /\ frame.fn = "load_csv_read"
    /\ frame.of_saved
    /\ result.status = "ok"
    /\ \E i \in 1..Len(frame.recs) :
           /\ frame.recs[i].inst = <<",", "\"", "\n">>
           /\ ~frame.recs[i].test_skip

\* A data row the loop cannot turn into a record.
RowBad(h, row) ==
    \/ Len(row) # Len(h)
    \/ ~DeserializeRow(h, row).ok

\* The first bad data row, or 0.
FirstBad(h, rows) ==
    IF \E i \in 1..Len(rows) : RowBad(h, rows[i])
    THEN CHOOSE i \in 1..Len(rows) :
             /\ RowBad(h, rows[i])
             /\ \A k \in 1..(i - 1) : ~RowBad(h, rows[k])
    ELSE 0

\* C3: a load is all or nothing. While it runs, v holds the records of the
\* rows taken so far, in row order; it returns Ok exactly when no data row
\* is bad, with one record per data row in row order; otherwise it returns
\* an error and no record, having taken the rows up to the first bad one
\* and none after it.
C3_AllOrNothing ==
    LET recs == GivenRecords
        h == HeaderOf(recs)
        rows == RowsOf(recs)
        bad == FirstBad(h, rows)
    IN /\ (pc = "load_loop") =>
              /\ Len(v) = trace.rows
              /\ \A i \in 1..Len(v) : v[i] = DeserializeRow(h, rows[i]).record
       /\ Loaded =>
              /\ result.status = "ok" <=> bad = 0
              /\ result.status = "ok" =>
                     /\ trace.rows = Len(rows)
                     /\ Len(result.records) = Len(rows)
                     /\ \A i \in 1..Len(rows) :
                            result.records[i] = DeserializeRow(h, rows[i]).record
              /\ result.status = "err" =>
                     /\ result.records = <<>>
                     /\ v = <<>>
                     /\ trace.rows = bad

\* A load failed on its second data row, after a good first one.
C3_Witness ==
    /\ Loaded
    /\ result.status = "err"
    /\ trace.rows = 2
    /\ Len(RowsOf(GivenRecords)) = 2

\* A save has returned Ok.
SavedOk == Returned /\ frame.fn \in SaveFns /\ result.status = "ok"

\* The bytes the sink of the save holds.
Written == IF frame.fn = "save_csv_file" THEN fs[frame.path].data ELSE result.bytes

HeaderRow == WriteRecord(SerializeFields)

RowsText(recs) == Concat([i \in 1..Len(recs) |-> WriteRecord(RecordCells(recs[i]))])

C5_FlushBeforeOk ==
    /\ (Returned /\ frame.fn = "save_csv_write" /\ result.status = "ok") =>
           /\ trace.flushed
           /\ trace.serialized = Len(frame.recs)
           /\ result.handle.buf = <<>>
           /\ result.bytes = trace.emitted
           /\ sink = trace.emitted
    /\ (pc = "save_unwind" /\ pending = "flush") =>
           /\ ~trace.flushed
           /\ result.status = "none"
    /\ (Returned /\ frame.fn \in SaveFns /\ result.cause = "flush") =>
           /\ result.status = "err"
           /\ ~trace.flushed

\* save_csv_write returned Ok for a fallible sink that was written to
\* before the final flush.
C5_Witness ==
    /\ Returned
    /\ frame.fn = "save_csv_write"
    /\ frame.kind = "pipe"
    /\ result.status = "ok"
    /\ Len(frame.recs) = 2
    /\ Len(result.bytes) > BufCapacity

\* A data row has a volume cell that is no number.
HasBadCell(h, rows) ==
    \E i \in 1..Len(rows) :
        \E j \in 1..Len(rows[i]) :
            /\ j <= Len(h)
            /\ h[j] = volume_name
            /\ ~ParsesAsU64(rows[i][j])

\* A data row is longer or shorter than the header.
HasUnequalRow(h, rows) == \E i \in 1..Len(rows) : Len(rows[i]) # Len(h)

\* There is a header and it lacks a column a deserialized field requires.
MissingRequired(recs) ==
    /\ recs # <<>>
    /\ \E f \in DeserializeFields : Columns(Head(recs), f) = {}

\* C6 as stated: a load returns an error and no record whenever a cell
\* cannot be coerced, the header omits a required column, or a row's
\* length differs from the header's.
C6_ErrorCases_Original ==
    Loaded =>
        LET recs == GivenRecords
            h == HeaderOf(recs)
            rows == RowsOf(recs)
        IN (HasBadCell(h, rows) \/ HasUnequalRow(h, rows) \/ MissingRequired(recs)) =>
               /\ result.status = "err"
               /\ result.records = <<>>

\* C6 as amended: the same, the omitted column being an error only when
\* the input has at least one data row (a header alone loads as the empty
\* list whatever it names).
C6_ErrorCases ==
    Loaded =>
        LET recs == GivenRecords
            h == HeaderOf(recs)
            rows == RowsOf(recs)
        IN /\ (\/ HasBadCell(h, rows)
               \/ HasUnequalRow(h, rows)
               \/ MissingRequired(recs) /\ rows # <<>>) =>
                  /\ result.status = "err"
                  /\ result.records = <<>>
           /\ rows = <<>> =>
                  /\ result.status = "ok"
                  /\ result.records = <<>>

\* A load failed because the header lacks a required column.
C6_Witness ==
    /\ Loaded
    /\ result.status = "err"
    /\ result.cause = "missing field"
    /\ MissingRequired(GivenRecords)

HasBom(bytes) ==
    \/ StartsWith(bytes, Utf8Bom)
    \/ StartsWith(bytes, Utf16LeBom)
    \/ StartsWith(bytes, Utf16BeBom)

\* C7: load_csv_file hands the reader the file's text without its
\* byte-order mark (the file is that text in one of the encodings, so the
\* header is the same with or without the mark); load_csv_read hands the
\* reader its argument byte for byte.
C7_ByteOrderMark ==
    /\ (frame.fn = "load_csv_file" /\ result.cause # "open") =>
           /\ ~HasBom(trace.delivered)
           /\ \E e \in Encodings : Encode(e, trace.delivered) = frame.input
    /\ frame.fn = "load_csv_read" => trace.delivered = frame.input

\* load_csv_file returned records from a file that starts with a mark.
C7_Witness ==
    /\ Returned
    /\ frame.fn = "load_csv_file"
    /\ HasBom(frame.input)
    /\ result.status = "ok"
    /\ result.records # <<>>
    /\ HeaderOf(GivenRecords)[1] = inst_name

C10_ScopedHandles ==
    /\ pc = "idle" =>
           /\ handles = {}
           /\ rdr = NoReader
           /\ v = <<>>
           /\ wtr = NoWriter
           /\ iter = <<>>
           /\ pending = ""
    /\ pc # "idle" =>
           handles = IF frame.fn \in FileFns THEN {frame.path} ELSE {}

\* load_csv_file has returned an error of the parse step.
C10_Witness ==
    /\ Returned
    /\ frame.fn = "load_csv_file"
    /\ result.status = "err"
    /\ result.cause # "open"
    /\ trace.rows > 0
==========================================================================
